---- MODULE Spec2Model ----
(***************************************************************************)
(* The crowdworking platform of src/code (UserModelEnv, Task and their     *)
(* settings objects) as a state machine.                                   *)
(*                                                                         *)
(* Numbers.  Every float of the program is a fixed-point integer counted   *)
(* in twentieths: 1.0 is One, 0.1 is 2, 0.25 is 5.  Integers of the        *)
(* program (counters, indices, labels) stay integers; Float(n) is the      *)
(* conversion int -> float.  The inputs are chosen so that every product   *)
(* is exact and no comparison of the program falls on a rounding error of  *)
(* its floats: reputations are multiples of 0.25, and the time budget lies *)
(* between two multiples of 0.1.                                           *)
(*                                                                         *)
(* Randomness.  self.random is a numpy Generator: a stream of raw draws    *)
(* fixed by the seed.  An operation that takes the generator takes         *)
(* rnd = [d |-> the raw draws it may read, p |-> how many it has read]     *)
(* and hands the advanced rnd back, as the code hands on the generator.    *)
(***************************************************************************)
EXTENDS Integers, Sequences, FiniteSets, TLC

\* ------------------------------------------------------------------ bounds
MaxRaw == 1          \* raw draws of the generator are 0..MaxRaw
TimeBudget == 3      \* the time budget of the runs is TimeBudget tenths and a half
MaxRunLen == 4       \* calls recorded per seeded run (SpecDet only)
MaxAnswers == 2      \* answers given to a task over its methods (SpecTask only)
MaxTwinLen == 2      \* calls recorded per compared episode (SpecTwin only)

\* ---------------------------------------------------------- number model
One == 20
None == -1000

Float(n) == n * One
Mul(a, b) == (a * b) \div One
Min(a, b) == IF a < b THEN a ELSE b
Max(a, b) == IF a > b THEN a ELSE b

Raw == 0..MaxRaw

\* random.random(): a float in [0, 1)
random_random(rnd) == Min(One - 1, rnd.d[rnd.p + 1] * (One \div 2))
\* random.integers(low, high): an integer in [low, high)
random_integers(rnd, low, high) == low + (rnd.d[rnd.p + 1] % (high - low))
\* random.beta(a, b): a float in (0, 1)
random_beta(rnd) == Min(One - 1, (1 + rnd.d[rnd.p + 1]) * (One \div 4))
\* the generator after one draw
Advance(rnd) == [rnd EXCEPT !.p = @ + 1]

\* Python list indexing: xs[i] counts from the end when i is negative
PyIndexOk(n, i) == -n <= i /\ i < n
PyIndex(n, i) == IF i < 0 THEN n + i ELSE i

\* ------------------------------------------------------------- variables
VARIABLES
    user_properties,                 \* UserModelEnv.user_properties
    anti_cheat_settings,             \* UserModelEnv.anti_cheat_settings
    tasks_properties_distributions,  \* UserModelEnv.tasks_properties_distributions
    tasks,                           \* UserModelEnv.tasks, indexed 0..n-1
    task_task_dist_map,              \* UserModelEnv.task_task_dist_map
    current_task_idx,                \* UserModelEnv.current_task_idx
    user_reputation,                 \* UserModelEnv.user_reputation
    overall_time_spent,              \* UserModelEnv.overall_time_spent
    last_action,                     \* UserModelEnv.last_action
    random,                          \* UserModelEnv.random: None or the seed
    ret,                             \* what the last call returned
    stream,                          \* raw draws of the seeded generator read so far
    pos,                             \* draws read since seed()
    cur,                             \* calls and results of the run since seed()
    ref                              \* calls and results of an earlier run

config == <<user_properties, anti_cheat_settings, tasks_properties_distributions>>
env == <<tasks, task_task_dist_map, current_task_idx, user_reputation,
         overall_time_spent, last_action, random, ret>>
det == <<stream, pos, cur, ref>>
vars == <<config, env, det>>

num_tasks == Len(tasks_properties_distributions)
num_actions == 3 + num_tasks

ACTION_QUIT == 0
ACTION_ANS_RND == 1
ACTION_ANS_INTENT == 2
SWITCH_TASK0 == 3

QUALITY_CONTROL_MODE == 0
LABEL_MODE == 1

\* ------------------------------------------------------------------ task.py
\* Instance(true_label); the worker's label is never assigned
Instance(true_label) == [true_label |-> true_label, label |-> None]
\* Optional[Instance] = None
NoInstance == [true_label |-> None, label |-> None]

TaskProperties(payout, expertise, effort, interestingness, target_num_instances) ==
    [payout |-> payout, expertise |-> expertise, effort |-> effort,
     interestingness |-> interestingness,
     target_num_instances |-> target_num_instances, num_classes |-> 10]

\* TaskPropertiesCustomFixedDistribution.create_properties: no draw is read
create_properties_fixed(dist, rnd) ==
    [props |-> TaskProperties(dist.payout, dist.expertise, dist.effort,
                              dist.interestingness - One \div 2,
                              dist.target_num_instances),
     rnd |-> rnd]

\* TaskPropertiesCustomBetaDistribution.create_properties: five beta draws, in
\* the order of the keyword arguments
create_properties_beta(dist, rnd) ==
    LET r1 == Advance(rnd)
        r2 == Advance(r1)
        r3 == Advance(r2)
        r4 == Advance(r3)
    IN  [props |-> TaskProperties(random_beta(rnd), random_beta(r1), random_beta(r2),
                                  random_beta(r3) - One \div 2,
                                  Mul(random_beta(r4), dist.target_num_instances_scale)),
         rnd |-> Advance(r4)]

create_properties(dist, rnd) ==
    IF dist.kind = "fixed" THEN create_properties_fixed(dist, rnd)
    ELSE create_properties_beta(dist, rnd)

\* Task.__init__; last_response_type, which is written for logging and never
\* read, is left out
Task(properties) ==
    [properties |-> properties,
     mode |-> None,
     current_instance |-> NoInstance,
     instance_counter |-> 0,
     real_instance_counter |-> 0,
     qa_false_counter |-> 0]

\* is_active as it would be if the reputation were left out of it
is_active_any_reputation(task, current_user_reputation) ==
    /\ Float(task.real_instance_counter) < task.properties.target_num_instances
    /\ task.qa_false_counter < anti_cheat_settings.qa_false_max

\* is_active as it would be if qa_false_max failures were still allowed
is_active_inclusive(task, current_user_reputation) ==
    /\ Float(task.real_instance_counter) < task.properties.target_num_instances
    /\ task.qa_false_counter <= anti_cheat_settings.qa_false_max
    /\ current_user_reputation >= anti_cheat_settings.min_reputation

\* is_active as it would be if a low reputation banned the worker only from the
\* tasks whose quality-control instances the worker has failed
is_active_own_failures(task, current_user_reputation) ==
    /\ Float(task.real_instance_counter) < task.properties.target_num_instances
    /\ task.qa_false_counter < anti_cheat_settings.qa_false_max
    /\ \/ task.qa_false_counter = 0
       \/ current_user_reputation >= anti_cheat_settings.min_reputation

\* Task.is_active
is_active(task, current_user_reputation) ==
    /\ Float(task.real_instance_counter) < task.properties.target_num_instances
    /\ task.qa_false_counter < anti_cheat_settings.qa_false_max
    /\ current_user_reputation >= anti_cheat_settings.min_reputation

\* receive_answer as it would be without the assertion on the mode
receive_answer_unasserted(task, answer) ==
    LET counted == [task EXCEPT !.instance_counter = @ + 1]
        no_instance == task.current_instance = NoInstance
        wrong == answer # task.current_instance.true_label
    IN  IF task.mode = QUALITY_CONTROL_MODE
        THEN IF no_instance
             THEN [task |-> counted, reputation_change |-> 0,
                   raised |-> "AttributeError"]
             ELSE IF wrong
             THEN [task |-> [counted EXCEPT !.qa_false_counter = @ + 1],
                   reputation_change |-> anti_cheat_settings.reputation_punishment,
                   raised |-> ""]
             ELSE [task |-> counted,
                   reputation_change |-> anti_cheat_settings.reputation_bonus,
                   raised |-> ""]
        ELSE IF task.mode = LABEL_MODE
        THEN [task |-> [counted EXCEPT !.real_instance_counter = @ + 1],
              reputation_change |-> 0,
              raised |-> IF no_instance THEN "AttributeError" ELSE ""]
        ELSE [task |-> counted, reputation_change |-> 0, raised |-> ""]

\* receive_answer as it would be if a wrong label were punished like a failed
\* quality-control answer
receive_answer_label_graded(task, answer) ==
    IF task.mode = None
    THEN [task |-> task, reputation_change |-> 0, raised |-> "AssertionError"]
    ELSE
    LET counted == [task EXCEPT !.instance_counter = @ + 1]
        no_instance == task.current_instance = NoInstance
        wrong == answer # task.current_instance.true_label
    IN  IF task.mode = QUALITY_CONTROL_MODE
        THEN IF no_instance
             THEN [task |-> counted, reputation_change |-> 0,
                   raised |-> "AttributeError"]
             ELSE IF wrong
             THEN [task |-> [counted EXCEPT !.qa_false_counter = @ + 1],
                   reputation_change |-> anti_cheat_settings.reputation_punishment,
                   raised |-> ""]
             ELSE [task |-> counted,
                   reputation_change |-> anti_cheat_settings.reputation_bonus,
                   raised |-> ""]
        ELSE IF task.mode = LABEL_MODE
        THEN [task |-> [counted EXCEPT !.real_instance_counter = @ + 1],
              reputation_change |-> IF wrong /\ ~no_instance
                                    THEN anti_cheat_settings.reputation_punishment
                                    ELSE 0,
              raised |-> IF no_instance THEN "AttributeError" ELSE ""]
        ELSE [task |-> counted, reputation_change |-> 0, raised |-> ""]

\* receive_answer as it would be if only quality-control answers were counted
\* in instance_counter
receive_answer_counts_gold(task, answer) ==
    IF task.mode = None
    THEN [task |-> task, reputation_change |-> 0, raised |-> "AssertionError"]
    ELSE
    LET counted == [task EXCEPT !.instance_counter = @ + 1]
        no_instance == task.current_instance = NoInstance
        wrong == answer # task.current_instance.true_label
    IN  IF task.mode = QUALITY_CONTROL_MODE
        THEN IF no_instance
             THEN [task |-> counted, reputation_change |-> 0,
                   raised |-> "AttributeError"]
             ELSE IF wrong
             THEN [task |-> [counted EXCEPT !.qa_false_counter = @ + 1],
                   reputation_change |-> anti_cheat_settings.reputation_punishment,
                   raised |-> ""]
             ELSE [task |-> counted,
                   reputation_change |-> anti_cheat_settings.reputation_bonus,
                   raised |-> ""]
        ELSE IF task.mode = LABEL_MODE
        THEN [task |-> [task EXCEPT !.real_instance_counter = @ + 1],
              reputation_change |-> 0,
              raised |-> IF no_instance THEN "AttributeError" ELSE ""]
        ELSE [task |-> task, reputation_change |-> 0, raised |-> ""]

\* Task.receive_answer: the task after the answer, the reputation change, and
\* the exception raised: the assertion on the mode (then nothing is changed), or
\* the read of true_label of no instance at line 202 or 212, after the counters
\* of lines 198 and 211 are written
receive_answer(task, answer) ==
    IF task.mode = None
    THEN [task |-> task, reputation_change |-> 0, raised |-> "AssertionError"]
    ELSE
    LET counted == [task EXCEPT !.instance_counter = @ + 1]
        no_instance == task.current_instance = NoInstance
        wrong == answer # task.current_instance.true_label
    IN  IF task.mode = QUALITY_CONTROL_MODE
        THEN IF no_instance
             THEN [task |-> counted, reputation_change |-> 0,
                   raised |-> "AttributeError"]
             ELSE IF wrong
             THEN [task |-> [counted EXCEPT !.qa_false_counter = @ + 1],
                   reputation_change |-> anti_cheat_settings.reputation_punishment,
                   raised |-> ""]
             ELSE [task |-> counted,
                   reputation_change |-> anti_cheat_settings.reputation_bonus,
                   raised |-> ""]
        ELSE IF task.mode = LABEL_MODE
        THEN [task |-> [counted EXCEPT !.real_instance_counter = @ + 1],
              reputation_change |-> 0,
              raised |-> IF no_instance THEN "AttributeError" ELSE ""]
        ELSE [task |-> counted, reputation_change |-> 0, raised |-> ""]

\* Task.get_next_known_answer_instance
get_next_known_answer_instance(task, rnd) ==
    [instance |-> Instance(random_integers(rnd, 0, task.properties.num_classes)),
     rnd |-> Advance(rnd)]

\* Task.get_next_unlabeled_instance
get_next_unlabeled_instance(task, rnd) == get_next_known_answer_instance(task, rnd)

\* Task.give_new_instance
give_new_instance(task, rnd) ==
    LET r1 == Advance(rnd) IN
    IF random_random(rnd) < anti_cheat_settings.qa_mode_prob
    THEN LET got == get_next_known_answer_instance(task, r1)
         IN  [task |-> [task EXCEPT !.mode = QUALITY_CONTROL_MODE,
                                    !.current_instance = got.instance],
              rnd |-> got.rnd]
    ELSE LET got == get_next_unlabeled_instance(task, r1)
         IN  [task |-> [task EXCEPT !.mode = LABEL_MODE,
                                    !.current_instance = got.instance],
              rnd |-> got.rnd]

\* --------------------------------------------------------------- userenv.py
\* an empty Python list or dict
EmptyList == [i \in {} |-> None]
PyLen(xs) == Cardinality(DOMAIN xs)

\* the value of a call: what step returns (reset returns the observation alone);
\* outcome is "ok", "none" when the call returned None, or the exception raised
Returned(obs, reward, done, info) ==
    [obs |-> obs, reward |-> reward, done |-> done, info |-> info, outcome |-> "ok"]
NoValue(outcome) ==
    [obs |-> <<>>, reward |-> 0, done |-> FALSE, info |-> {}, outcome |-> outcome]
\* the call that returned it: "none" before the first call, "reset" or "step"
By(call, value) ==
    [call |-> call, obs |-> value.obs, reward |-> value.reward, done |-> value.done,
     info |-> value.info, outcome |-> value.outcome]

\* the task part as it would be if the properties of a task were shown before
\* the worker has answered an instance of it
RECURSIVE task_observations_open(_, _, _)
task_observations_open(ts, rep, i) ==
    IF i >= PyLen(ts) THEN <<>>
    ELSE LET task == ts[i] IN
         <<task.properties.payout,
           IF is_active(task, rep) THEN Float(task.instance_counter) ELSE Float(-1)>>
         \o <<task.properties.expertise, task.properties.effort,
               task.properties.interestingness>>
         \o task_observations_open(ts, rep, i + 1)

\* the task part as it would be if the rounds of a task were reported whether
\* the task is active or not
RECURSIVE task_observations_counting(_, _, _)
task_observations_counting(ts, rep, i) ==
    IF i >= PyLen(ts) THEN <<>>
    ELSE LET task == ts[i] IN
         <<task.properties.payout, Float(task.instance_counter)>>
         \o (IF task.instance_counter > 0
             THEN <<task.properties.expertise, task.properties.effort,
                    task.properties.interestingness>>
             ELSE <<Float(-1), Float(-1), Float(-1)>>)
         \o task_observations_counting(ts, rep, i + 1)

\* UserModelEnv.create_observation, the slots i..n-1 of the task part
RECURSIVE task_observations(_, _, _)
task_observations(ts, rep, i) ==
    IF i >= PyLen(ts) THEN <<>>
    ELSE LET task == ts[i] IN
         <<task.properties.payout,
           IF is_active(task, rep) THEN Float(task.instance_counter) ELSE Float(-1)>>
         \o (IF task.instance_counter > 0
             THEN <<task.properties.expertise, task.properties.effort,
                    task.properties.interestingness>>
             ELSE <<Float(-1), Float(-1), Float(-1)>>)
         \o task_observations(ts, rep, i + 1)

\* the observation as it would be if it named the task-giver of the selected
\* task instead of its slot
create_observation_giver(ts, idx, rep, time_spent) ==
    task_observations(ts, rep, 0)
    \o <<IF idx \in DOMAIN task_task_dist_map
         THEN Float(task_task_dist_map[idx]) ELSE Float(idx),
         rep, user_properties.time_budget, time_spent>>

\* UserModelEnv.create_observation
create_observation(ts, idx, rep, time_spent) ==
    task_observations(ts, rep, 0)
    \o <<Float(idx), rep, user_properties.time_budget, time_spent>>

\* the environment's mutable fields as step and reset leave them, with the value
\* of the call and the generator
Outcome(ts, idx, rep, time_spent, value, rnd) ==
    [tasks |-> ts, current_task_idx |-> idx, user_reputation |-> rep,
     overall_time_spent |-> time_spent, ret |-> value, rnd |-> rnd]

\* the reputation as it would be without the clamp
clamp_reputation_none(reputation) == reputation

\* step, line 140: the reputation is kept in [0, 1]
clamp_reputation(reputation) == Max(0, Min(One, reputation))

\* the quit reward as it would be if the time spent were not taken off
quit_reward_full ==
    Mul(user_properties.time_budget, user_properties.time_sensitivity)

\* step, line 89: the reward for the time a quitting worker has left
quit_reward ==
    Mul(user_properties.time_budget - overall_time_spent, user_properties.time_sensitivity)

\* the time check as it would be if it counted the next answer in advance
out_of_time_early ==
    overall_time_spent + user_properties.random_answer_time > user_properties.time_budget

\* step, line 96: the worker has run out of time
out_of_time == overall_time_spent > user_properties.time_budget

\* step, lines 87-93: the worker quits
step_quit(rnd) ==
    Outcome(tasks, current_task_idx, user_reputation, overall_time_spent,
            Returned(create_observation(tasks, current_task_idx, user_reputation,
                                        overall_time_spent),
                     quit_reward, TRUE, {<<"end_reason", "user_quit">>}),
            rnd)

\* the end for lack of time as it would be if it deselected the task
step_out_of_time_deselects(rnd) ==
    Outcome(tasks, -1, user_reputation, overall_time_spent,
            Returned(create_observation(tasks, -1, user_reputation, overall_time_spent),
                     0, TRUE, {<<"end_reason", "end_of_user_time_budget">>}),
            rnd)

\* step, lines 96-102: the episode ends for lack of time
step_out_of_time(rnd) ==
    Outcome(tasks, current_task_idx, user_reputation, overall_time_spent,
            Returned(create_observation(tasks, current_task_idx, user_reputation,
                                        overall_time_spent),
                     0, TRUE, {<<"end_reason", "end_of_user_time_budget">>}),
            rnd)

\* the rejected answer as it would be if it cost no time
answer_rejected_free(rnd) ==
    Outcome(tasks, current_task_idx, user_reputation, overall_time_spent,
            Returned(create_observation(tasks, current_task_idx, user_reputation,
                                        overall_time_spent),
                     Float(-1), FALSE, {}),
            rnd)

\* step, lines 110-114: an answer with no task selected, or to an inactive task
answer_rejected(rnd) ==
    LET spent == overall_time_spent + user_properties.random_answer_time
    IN  Outcome(tasks, current_task_idx, user_reputation, spent,
                Returned(create_observation(tasks, current_task_idx, user_reputation, spent),
                         Float(-1), FALSE, {}),
                rnd)

\* the answer as it would be if the diligent answer were paid like the negligent one
answer_accepted_plain(action, i, rnd) ==
    LET current_task == tasks[i]
        reward_payout == Mul(user_properties.payout_sensitivity,
                             current_task.properties.payout)
        negligent == action = ACTION_ANS_RND
        knows == random_random(rnd) < current_task.properties.expertise
        time_spent == IF negligent THEN user_properties.random_answer_time
                      ELSE Mul(user_properties.intentional_answer_time,
                               current_task.properties.effort)
        answer_to_task ==
            IF negligent
            THEN random_integers(rnd, 0, current_task.properties.num_classes)
            ELSE IF knows THEN current_task.current_instance.true_label
            ELSE random_integers(Advance(rnd), 0, current_task.properties.num_classes)
        answered == IF negligent \/ knows THEN Advance(rnd) ELSE Advance(Advance(rnd))
        reward_interestingness == Mul(user_properties.interestingness_sensitivity,
                                      current_task.properties.interestingness)
        reward == reward_payout
        spent == overall_time_spent + time_spent
        got == receive_answer(current_task, answer_to_task)
        reputation == clamp_reputation(user_reputation + got.reputation_change)
    IN
    IF random = None
    THEN \* line 121 or 128 calls a method of no generator, before anything is written
         Outcome(tasks, current_task_idx, user_reputation, overall_time_spent,
                 NoValue("AttributeError"), rnd)
    ELSE IF ~negligent /\ knows /\ current_task.current_instance = NoInstance
    THEN \* line 129 reads true_label of no instance, before the time is charged
         Outcome(tasks, current_task_idx, user_reputation, overall_time_spent,
                 NoValue("AttributeError"), Advance(rnd))
    ELSE IF got.raised # ""
    THEN \* line 138 raised, after the time is charged
         Outcome([tasks EXCEPT ![i] = got.task], current_task_idx, user_reputation,
                 spent, NoValue(got.raised), answered)
    ELSE IF ~is_active(got.task, reputation)
    THEN LET ts == [tasks EXCEPT ![i] = got.task]
         IN  Outcome(ts, -1, reputation, spent,
                     Returned(create_observation(ts, -1, reputation, spent),
                              reward, FALSE, {}),
                     answered)
    ELSE LET new == give_new_instance(got.task, answered)
             ts == [tasks EXCEPT ![i] = new.task]
         IN  Outcome(ts, current_task_idx, reputation, spent,
                     Returned(create_observation(ts, current_task_idx, reputation, spent),
                              reward, FALSE, {}),
                     new.rnd)

\* the answer as it would be if the task stayed selected and got a new instance
\* whether it is still active or not
answer_accepted_goes_on(action, i, rnd) ==
    LET current_task == tasks[i]
        reward_payout == Mul(user_properties.payout_sensitivity,
                             current_task.properties.payout)
        negligent == action = ACTION_ANS_RND
        knows == random_random(rnd) < current_task.properties.expertise
        time_spent == IF negligent THEN user_properties.random_answer_time
                      ELSE Mul(user_properties.intentional_answer_time,
                               current_task.properties.effort)
        answer_to_task ==
            IF negligent
            THEN random_integers(rnd, 0, current_task.properties.num_classes)
            ELSE IF knows THEN current_task.current_instance.true_label
            ELSE random_integers(Advance(rnd), 0, current_task.properties.num_classes)
        answered == IF negligent \/ knows THEN Advance(rnd) ELSE Advance(Advance(rnd))
        reward_interestingness == Mul(user_properties.interestingness_sensitivity,
                                      current_task.properties.interestingness)
        reward == IF negligent THEN reward_payout
                  ELSE reward_payout + reward_interestingness
        spent == overall_time_spent + time_spent
        got == receive_answer(current_task, answer_to_task)
        reputation == clamp_reputation(user_reputation + got.reputation_change)
    IN
    IF random = None
    THEN \* line 121 or 128 calls a method of no generator, before anything is written
         Outcome(tasks, current_task_idx, user_reputation, overall_time_spent,
                 NoValue("AttributeError"), rnd)
    ELSE IF ~negligent /\ knows /\ current_task.current_instance = NoInstance
    THEN \* line 129 reads true_label of no instance, before the time is charged
         Outcome(tasks, current_task_idx, user_reputation, overall_time_spent,
                 NoValue("AttributeError"), Advance(rnd))
    ELSE IF got.raised # ""
    THEN \* line 138 raised, after the time is charged
         Outcome([tasks EXCEPT ![i] = got.task], current_task_idx, user_reputation,
                 spent, NoValue(got.raised), answered)
    ELSE LET new == give_new_instance(got.task, answered)
             ts == [tasks EXCEPT ![i] = new.task]
         IN  Outcome(ts, current_task_idx, reputation, spent,
                     Returned(create_observation(ts, current_task_idx, reputation, spent),
                              reward, FALSE, {}),
                     new.rnd)

\* step, lines 116-149: an answer to the selected task i
answer_accepted(action, i, rnd) ==
    LET current_task == tasks[i]
        reward_payout == Mul(user_properties.payout_sensitivity,
                             current_task.properties.payout)
        negligent == action = ACTION_ANS_RND
        knows == random_random(rnd) < current_task.properties.expertise
        time_spent == IF negligent THEN user_properties.random_answer_time
                      ELSE Mul(user_properties.intentional_answer_time,
                               current_task.properties.effort)
        answer_to_task ==
            IF negligent
            THEN random_integers(rnd, 0, current_task.properties.num_classes)
            ELSE IF knows THEN current_task.current_instance.true_label
            ELSE random_integers(Advance(rnd), 0, current_task.properties.num_classes)
        answered == IF negligent \/ knows THEN Advance(rnd) ELSE Advance(Advance(rnd))
        reward_interestingness == Mul(user_properties.interestingness_sensitivity,
                                      current_task.properties.interestingness)
        reward == IF negligent THEN reward_payout
                  ELSE reward_payout + reward_interestingness
        spent == overall_time_spent + time_spent
        got == receive_answer(current_task, answer_to_task)
        reputation == clamp_reputation(user_reputation + got.reputation_change)
    IN
    IF random = None
    THEN \* line 121 or 128 calls a method of no generator, before anything is written
         Outcome(tasks, current_task_idx, user_reputation, overall_time_spent,
                 NoValue("AttributeError"), rnd)
    ELSE IF ~negligent /\ knows /\ current_task.current_instance = NoInstance
    THEN \* line 129 reads true_label of no instance, before the time is charged
         Outcome(tasks, current_task_idx, user_reputation, overall_time_spent,
                 NoValue("AttributeError"), Advance(rnd))
    ELSE IF got.raised # ""
    THEN \* line 138 raised, after the time is charged
         Outcome([tasks EXCEPT ![i] = got.task], current_task_idx, user_reputation,
                 spent, NoValue(got.raised), answered)
    ELSE IF ~is_active(got.task, reputation)
    THEN LET ts == [tasks EXCEPT ![i] = got.task]
         IN  Outcome(ts, -1, reputation, spent,
                     Returned(create_observation(ts, -1, reputation, spent),
                              reward, FALSE, {}),
                     answered)
    ELSE LET new == give_new_instance(got.task, answered)
             ts == [tasks EXCEPT ![i] = new.task]
         IN  Outcome(ts, current_task_idx, reputation, spent,
                     Returned(create_observation(ts, current_task_idx, reputation, spent),
                              reward, FALSE, {}),
                     new.rnd)

\* step, lines 108-149: ACTION_ANS_RND or ACTION_ANS_INTENT
step_answer(action, rnd) ==
    LET i == PyIndex(PyLen(tasks), current_task_idx)
    IN  IF current_task_idx = -1 \/ ~is_active(tasks[i], user_reputation)
        THEN answer_rejected(rnd)
        ELSE answer_accepted(action, i, rnd)

\* the refused switch as it would be if it kept the selection
switch_rejected_keeps(spent, rnd) ==
    Outcome(tasks, current_task_idx, user_reputation, spent,
            Returned(create_observation(tasks, current_task_idx, user_reputation, spent),
                     Float(-1), FALSE, {}),
            rnd)

\* step, lines 159-164: the task switched to is inactive
switch_rejected(spent, rnd) ==
    Outcome(tasks, -1, user_reputation, spent,
            Returned(create_observation(tasks, -1, user_reputation, spent),
                     Float(-1), FALSE, {}),
            rnd)

\* the switch as it would be without the penalty for switching to the same task
switch_accepted_free(previous_task_idx, idx, spent, rnd) ==
    LET new == give_new_instance(tasks[idx], rnd)
        ts == [tasks EXCEPT ![idx] = new.task]
    IN  IF random = None
        THEN \* give_new_instance calls a method of no generator (task.py, line 220)
             Outcome(tasks, idx, user_reputation, spent, NoValue("AttributeError"), rnd)
        ELSE
        Outcome(ts, idx, user_reputation, spent,
                Returned(create_observation(ts, idx, user_reputation, spent),
                         0, FALSE, {}),
                new.rnd)

\* the switch as it would be if it gave the task no instance
switch_accepted_no_instance(previous_task_idx, idx, spent, rnd) ==
    LET reward == IF previous_task_idx = idx THEN Float(-1) ELSE 0
    IN  Outcome(tasks, idx, user_reputation, spent,
                Returned(create_observation(tasks, idx, user_reputation, spent),
                         reward, FALSE, {}),
                rnd)

\* step, lines 166-176: the task idx switched to is active
switch_accepted(previous_task_idx, idx, spent, rnd) ==
    LET reward == IF previous_task_idx = idx THEN Float(-1) ELSE 0
        new == give_new_instance(tasks[idx], rnd)
        ts == [tasks EXCEPT ![idx] = new.task]
    IN  IF random = None
        THEN \* give_new_instance calls a method of no generator (task.py, line 220)
             Outcome(tasks, idx, user_reputation, spent, NoValue("AttributeError"), rnd)
        ELSE
        Outcome(ts, idx, user_reputation, spent,
                Returned(create_observation(ts, idx, user_reputation, spent),
                         reward, FALSE, {}),
                new.rnd)

\* the switch as it would be if it took no time
step_switch_free(action, rnd) ==
    LET previous_task_idx == current_task_idx
        idx == action - SWITCH_TASK0
        spent == overall_time_spent
    IN
    IF ~PyIndexOk(PyLen(tasks), idx)
    THEN Outcome(tasks, idx, user_reputation, spent, NoValue("IndexError"), rnd)
    ELSE IF ~is_active(tasks[idx], user_reputation)
    THEN switch_rejected(spent, rnd)
    ELSE switch_accepted(previous_task_idx, idx, spent, rnd)

\* step, lines 151-176: SWITCH_TASK0 <= action
step_switch(action, rnd) ==
    LET previous_task_idx == current_task_idx
        idx == action - SWITCH_TASK0
        spent == overall_time_spent + user_properties.switch_task_time
    IN
    IF ~PyIndexOk(PyLen(tasks), idx)
    THEN Outcome(tasks, idx, user_reputation, spent, NoValue("IndexError"), rnd)
    ELSE IF ~is_active(tasks[idx], user_reputation)
    THEN switch_rejected(spent, rnd)
    ELSE switch_accepted(previous_task_idx, idx, spent, rnd)

\* UserModelEnv.step
step(action, rnd) ==
    IF action = ACTION_QUIT THEN step_quit(rnd)
    ELSE IF out_of_time THEN step_out_of_time(rnd)
    ELSE IF ~PyIndexOk(PyLen(tasks), current_task_idx)
    THEN \* line 106 on an empty list
         Outcome(tasks, current_task_idx, user_reputation, overall_time_spent,
                 NoValue("IndexError"), rnd)
    ELSE IF action = ACTION_ANS_RND \/ action = ACTION_ANS_INTENT
    THEN step_answer(action, rnd)
    ELSE IF SWITCH_TASK0 <= action
    THEN step_switch(action, rnd)
    ELSE \* no branch is taken and step returns None
         Outcome(tasks, current_task_idx, user_reputation, overall_time_spent,
                 NoValue("none"), rnd)

\* reset, lines 215-218: one new Task per task-giver j..n-1, in order
RECURSIVE create_tasks(_, _, _)
create_tasks(j, new_tasks, rnd) ==
    IF j >= num_tasks THEN [new_tasks |-> new_tasks, rnd |-> rnd]
    ELSE LET made == create_properties(tasks_properties_distributions[j + 1], rnd)
         IN  create_tasks(j + 1,
                          [k \in 0..j |-> IF k = j THEN Task(made.props) ELSE new_tasks[k]],
                          made.rnd)

\* Generator.shuffle: for i = n-1 down to 1, swap xs[i] with xs[j], j drawn from 0..i
RECURSIVE shuffle(_, _, _)
shuffle(xs, i, rnd) ==
    IF i < 1 THEN [list |-> xs, rnd |-> rnd]
    ELSE LET j == random_integers(rnd, 0, i + 1)
         IN  shuffle([xs EXCEPT ![i] = xs[j], ![j] = xs[i]], i - 1, Advance(rnd))

\* reset as it would be if it left the time spent as it was
reset_keeps_time(rnd) ==
    IF random = None
    THEN [tasks |-> EmptyList, task_task_dist_map |-> EmptyList,
          current_task_idx |-> current_task_idx, last_action |-> last_action,
          overall_time_spent |-> overall_time_spent, user_reputation |-> user_reputation,
          ret |-> NoValue("AttributeError"), rnd |-> rnd]
    ELSE
    LET made == create_tasks(0, EmptyList, rnd)
        shuffled == shuffle([i \in 0..(num_tasks - 1) |-> i], num_tasks - 1, made.rnd)
        task_dist_indices == shuffled.list
        ts == [task_index \in 0..(num_tasks - 1) |->
                  made.new_tasks[task_dist_indices[task_index]]]
        reputation == user_properties.start_reputation
    IN  [tasks |-> ts,
         task_task_dist_map |-> [task_index \in 0..(num_tasks - 1) |->
                                    task_dist_indices[task_index]],
         current_task_idx |-> -1,
         last_action |-> None,
         overall_time_spent |-> overall_time_spent,
         user_reputation |-> reputation,
         ret |-> Returned(create_observation(ts, -1, reputation, overall_time_spent),
                          0, FALSE, {}),
         rnd |-> shuffled.rnd]

\* reset as it would be if it recorded the task-givers in their order, not in the
\* shuffled order of the tasks
reset_maps_in_order(rnd) ==
    IF random = None
    THEN \* self.random.shuffle (or a beta draw) on None, after lines 213-214
         [tasks |-> EmptyList, task_task_dist_map |-> EmptyList,
          current_task_idx |-> current_task_idx, last_action |-> last_action,
          overall_time_spent |-> overall_time_spent, user_reputation |-> user_reputation,
          ret |-> NoValue("AttributeError"), rnd |-> rnd]
    ELSE
    LET made == create_tasks(0, EmptyList, rnd)
        shuffled == shuffle([i \in 0..(num_tasks - 1) |-> i], num_tasks - 1, made.rnd)
        task_dist_indices == shuffled.list
        ts == [task_index \in 0..(num_tasks - 1) |->
                  made.new_tasks[task_dist_indices[task_index]]]
        reputation == user_properties.start_reputation
    IN  [tasks |-> ts,
         task_task_dist_map |-> [task_index \in 0..(num_tasks - 1) |-> task_index],
         current_task_idx |-> -1,
         last_action |-> None,
         overall_time_spent |-> 0,
         user_reputation |-> reputation,
         ret |-> Returned(create_observation(ts, -1, reputation, 0), 0, FALSE, {}),
         rnd |-> shuffled.rnd]

\* reset as it would be if the tasks of the episode before were kept in their slots
reset_keeps_tasks(rnd) ==
    IF random = None
    THEN \* self.random.shuffle (or a beta draw) on None, after lines 213-214
         [tasks |-> EmptyList, task_task_dist_map |-> EmptyList,
          current_task_idx |-> current_task_idx, last_action |-> last_action,
          overall_time_spent |-> overall_time_spent, user_reputation |-> user_reputation,
          ret |-> NoValue("AttributeError"), rnd |-> rnd]
    ELSE
    LET made == create_tasks(0, EmptyList, rnd)
        shuffled == shuffle([i \in 0..(num_tasks - 1) |-> i], num_tasks - 1, made.rnd)
        task_dist_indices == shuffled.list
        ts == IF PyLen(tasks) = num_tasks THEN tasks
              ELSE [task_index \in 0..(num_tasks - 1) |->
                       made.new_tasks[task_dist_indices[task_index]]]
        reputation == user_properties.start_reputation
    IN  [tasks |-> ts,
         task_task_dist_map |-> [task_index \in 0..(num_tasks - 1) |->
                                    task_dist_indices[task_index]],
         current_task_idx |-> -1,
         last_action |-> None,
         overall_time_spent |-> 0,
         user_reputation |-> reputation,
         ret |-> Returned(create_observation(ts, -1, reputation, 0), 0, FALSE, {}),
         rnd |-> shuffled.rnd]

\* UserModelEnv.reset
reset(rnd) ==
    IF random = None
    THEN \* self.random.shuffle (or a beta draw) on None, after lines 213-214
         [tasks |-> EmptyList, task_task_dist_map |-> EmptyList,
          current_task_idx |-> current_task_idx, last_action |-> last_action,
          overall_time_spent |-> overall_time_spent, user_reputation |-> user_reputation,
          ret |-> NoValue("AttributeError"), rnd |-> rnd]
    ELSE
    LET made == create_tasks(0, EmptyList, rnd)
        shuffled == shuffle([i \in 0..(num_tasks - 1) |-> i], num_tasks - 1, made.rnd)
        task_dist_indices == shuffled.list
        ts == [task_index \in 0..(num_tasks - 1) |->
                  made.new_tasks[task_dist_indices[task_index]]]
        reputation == user_properties.start_reputation
    IN  [tasks |-> ts,
         task_task_dist_map |-> [task_index \in 0..(num_tasks - 1) |->
                                    task_dist_indices[task_index]],
         current_task_idx |-> -1,
         last_action |-> None,
         overall_time_spent |-> 0,
         user_reputation |-> reputation,
         ret |-> Returned(create_observation(ts, -1, reputation, 0), 0, FALSE, {}),
         rnd |-> shuffled.rnd]

\* UserModelEnv.seed: a generator of its own for every seed
seed(s) == s

\* ------------------------------------------------------------ the inputs
UserProperties(interestingness_sensitivity, payout_sensitivity, time_sensitivity, time_budget, start_reputation, switch_task_time) ==
    [interestingness_sensitivity |-> interestingness_sensitivity,
     payout_sensitivity |-> payout_sensitivity,
     time_sensitivity |-> time_sensitivity,
     time_budget |-> time_budget,
     start_reputation |-> start_reputation,
     random_answer_time |-> One \div 10,
     intentional_answer_time |-> One,
     switch_task_time |-> switch_task_time]

AntiCheatSettings(qa_false_max, qa_mode_prob, reputation_punishment, reputation_bonus, min_reputation) ==
    [qa_false_max |-> qa_false_max, qa_mode_prob |-> qa_mode_prob,
     reputation_punishment |-> reputation_punishment,
     reputation_bonus |-> reputation_bonus, min_reputation |-> min_reputation]

TaskPropertiesCustomFixedDistribution(payout, expertise, effort, interestingness, target_num_instances) ==
    [kind |-> "fixed", payout |-> payout, expertise |-> expertise, effort |-> effort,
     interestingness |-> interestingness, target_num_instances |-> target_num_instances,
     target_num_instances_scale |-> 0]

TaskPropertiesCustomBetaDistribution(target_num_instances_scale) ==
    [kind |-> "beta", payout |-> 0, expertise |-> 0, effort |-> 0, interestingness |-> 0,
     target_num_instances |-> 0,
     target_num_instances_scale |-> target_num_instances_scale]

\* task-givers: two fixed ones (2 and 1 instances to label) and a beta one whose
\* target is a beta draw scaled by 2
GiverA ==
    TaskPropertiesCustomFixedDistribution(One \div 2, One \div 2, One \div 5,
                                          3 * (One \div 4), Float(2))
GiverB ==
    TaskPropertiesCustomFixedDistribution(One \div 4, One \div 2, One \div 5,
                                          One \div 4, Float(1))
GiverC == TaskPropertiesCustomBetaDistribution(Float(2))

\* a worker with sensitivities 1.0, 2.0, 2.0 for whom a switch takes 0.1
Worker(start_reputation) ==
    UserProperties(One, 2 * One, 2 * One, TimeBudget * (One \div 10) + One \div 20,
                   start_reputation, One \div 10)

\* anti-cheat settings with punishment -0.75 and bonus 0.25
Settings(qa_false_max, qa_mode_prob, min_reputation) ==
    AntiCheatSettings(qa_false_max, qa_mode_prob, -3 * (One \div 4), One \div 4,
                      min_reputation)

\* the constructor's arguments: the worker, the task-givers, the anti-cheat settings
Scenarios ==
    {<<Worker(One \div 2), <<GiverA>>, Settings(2, One, 0)>>,
     <<Worker(One), <<GiverC>>, Settings(2, One \div 2, One \div 2)>>,
     <<Worker(One \div 2), <<GiverA, GiverB>>, Settings(2, One \div 2, One \div 2)>>}

Seeds == {42}

\* the beta draws of one task-giver that the runs of Spec try
BetaDraws == {<<1, 1, 0, 1, r>> : r \in Raw}

\* the raw draws a reset may read: per task-giver its create_properties draws,
\* then the shuffle's
RECURSIVE CreateDraws(_)
CreateDraws(j) ==
    IF j > num_tasks THEN {<<>>}
    ELSE {x \o y : x \in (IF tasks_properties_distributions[j].kind = "fixed"
                          THEN {<<>>} ELSE BetaDraws),
                   y \in CreateDraws(j + 1)}
ShuffleDraws == {d \in [1..(num_tasks - 1) -> Raw] : \A i \in DOMAIN d : d[i] <= num_tasks - i}
ResetDraws == {x \o y : x \in CreateDraws(1), y \in ShuffleDraws}

\* the raw draws a step reads: at most four (the answer, the new instance), and
\* they are found one by one: a call that read more than the draws d it was
\* given (the rest written 0) is given one more
MaxStepDraws == 4
Padded(d) == [d |-> d \o [k \in 1..MaxStepDraws |-> 0], p |-> 0]
RECURSIVE StepDraws(_, _)
StepDraws(action, d) ==
    IF step(action, Padded(d)).rnd.p <= Len(d) THEN {d}
    ELSE UNION {StepDraws(action, Append(d, x)) : x \in Raw}

\* --------------------------------------------------------------- actions
Init ==
    /\ \E scenario \in Scenarios :
           /\ user_properties = scenario[1]
           /\ tasks_properties_distributions = scenario[2]
           /\ anti_cheat_settings = scenario[3]
    /\ tasks = EmptyList
    /\ task_task_dist_map = EmptyList
    /\ current_task_idx = -1
    /\ user_reputation = Float(-1)
    /\ overall_time_spent = 0
    /\ last_action = None
    /\ random = None
    /\ ret = By("none", NoValue("none"))
    /\ stream = [s \in Seeds |-> <<>>]
    /\ pos = 0
    /\ cur = <<>>
    /\ ref = <<>>

\* env.seed(s)
SeedWith(s) ==
    /\ random' = seed(s)
    /\ UNCHANGED <<config, tasks, task_task_dist_map, current_task_idx, user_reputation,
                   overall_time_spent, last_action, ret>>

\* env.reset() with the outcome r
ResetTo(r) ==
    /\ tasks' = r.tasks
    /\ task_task_dist_map' = r.task_task_dist_map
    /\ current_task_idx' = r.current_task_idx
    /\ last_action' = r.last_action
    /\ overall_time_spent' = r.overall_time_spent
    /\ user_reputation' = r.user_reputation
    /\ ret' = By("reset", r.ret)
    /\ UNCHANGED <<config, random>>

\* env.step(action) with the outcome r
StepTo(action, r) ==
    /\ last_action' = action
    /\ tasks' = r.tasks
    /\ current_task_idx' = r.current_task_idx
    /\ user_reputation' = r.user_reputation
    /\ overall_time_spent' = r.overall_time_spent
    /\ ret' = By("step", r.ret)
    /\ UNCHANGED <<config, task_task_dist_map, random>>

Seed == \E s \in Seeds : SeedWith(s) /\ UNCHANGED det

Reset ==
    \E d \in (IF random = None THEN {<<>>} ELSE ResetDraws) :
        ResetTo(reset([d |-> d, p |-> 0])) /\ UNCHANGED det

Step ==
    \E action \in 0..(num_actions - 1) :
        \E d \in StepDraws(action, <<>>) :
            StepTo(action, step(action, Padded(d))) /\ UNCHANGED det

Next == Seed \/ Reset \/ Step

Spec == Init /\ [][Next]_vars

\* ------------------------------------- actions outside the action space
\* step takes any integer: the nearest ones below and above 0..num_tasks+2
OutsideActions == {-1, num_actions}

StepOutside ==
    \E action \in OutsideActions :
        \E d \in StepDraws(action, <<>>) :
            StepTo(action, step(action, Padded(d))) /\ UNCHANGED det

NextAny == Seed \/ Reset \/ Step \/ StepOutside

SpecAny == Init /\ [][NextAny]_vars

\* ------------------------------------------- the methods of a task, called
\* The tasks that reset() has made are public (env.tasks): a caller may call
\* give_new_instance and receive_answer of a task itself, in any order.  ret
\* then holds the slot of the task, the answer given and the reputation change
\* returned as well.
TaskReturned(call, slot, answer, got) ==
    [call |-> call, obs |-> <<>>, reward |-> 0, done |-> FALSE, info |-> {},
     outcome |-> IF got.raised = "" THEN "ok" ELSE got.raised,
     slot |-> slot, answer |-> answer, reputation_change |-> got.reputation_change]

\* env.tasks[i].receive_answer(answer)
TaskReceiveAnswer ==
    \E i \in DOMAIN tasks : \E answer \in 0..MaxRaw :
        LET got == receive_answer(tasks[i], answer) IN
        /\ tasks[i].instance_counter < MaxAnswers
        /\ tasks' = [tasks EXCEPT ![i] = got.task]
        /\ ret' = TaskReturned("receive_answer", i, answer, got)
        /\ UNCHANGED <<config, task_task_dist_map, current_task_idx, user_reputation,
                       overall_time_spent, last_action, random, det>>

\* env.tasks[i].give_new_instance(env.random)
TaskGiveNewInstance ==
    /\ random # None
    /\ \E i \in DOMAIN tasks : \E d \in [1..2 -> Raw] :
           LET new == give_new_instance(tasks[i], [d |-> d, p |-> 0]) IN
           /\ tasks' = [tasks EXCEPT ![i] = new.task]
           /\ ret' = TaskReturned("give_new_instance", i, None,
                                  [raised |-> "", reputation_change |-> 0])
           /\ UNCHANGED <<config, task_task_dist_map, current_task_idx, user_reputation,
                          overall_time_spent, last_action, random, det>>

NextTask == Seed \/ Reset \/ TaskReceiveAnswer \/ TaskGiveNewInstance

SpecTask == Init /\ [][NextTask]_vars

\* ------------------------------------------------- runs from the same seed
\* The generator that seed(s) makes yields the same draws whenever it is made:
\* stream[s] holds the draws of seed s read so far (a draw nobody has read yet may
\* be anything), pos the number of them the present generator has yielded.  cur is
\* the record of the calls since the last seed(), what each returned included, and
\* ref the record of the run before it.  Two runs are followed, each seed(s);
\* reset() and then steps: the first from the environment as constructed, the
\* second from the state the first left, with the calls of the first or some of
\* them in the same order.

\* the draws d are what the generator yields next
Yields(d) ==
    \A k \in 1..Len(d) :
        pos + k <= Len(stream[random]) => d[k] = stream[random][pos + k]

\* the draws of the seeds once d has been read
Read(d) ==
    IF Len(d) = 0 \/ pos + Len(d) <= Len(stream[random]) THEN stream
    ELSE [stream EXCEPT ![random] = SubSeq(@, 1, pos) \o d]

Called(call, action, value) ==
    [call |-> call, action |-> action,
     obs |-> value.obs, reward |-> value.reward, done |-> value.done]

\* a run is recorded from its seed() on, MaxRunLen calls long
Record(entry) == Append(cur, entry)
RunGoesOn == Len(cur) <= MaxRunLen

\* a run that began seed(); reset()
IsRun(log) == Len(log) >= 2 /\ log[2].call = "reset"

\* the next call of the second run is the call the first run made at that place
Repeats(call, action) ==
    IsRun(ref) =>
        /\ Len(cur) < Len(ref)
        /\ ref[Len(cur) + 1].call = call
        /\ ref[Len(cur) + 1].action = action

SeedDet ==
    /\ ~(IsRun(ref) /\ IsRun(cur))
    /\ \E s \in Seeds :
           /\ IsRun(cur) => s = cur[1].action
           /\ SeedWith(s)
           /\ pos' = 0
           /\ cur' = <<Called("seed", s, NoValue("none"))>>
           /\ ref' = (IF IsRun(cur) THEN cur ELSE ref)
           /\ stream' = stream

ResetDet ==
    /\ cur # <<>>
    /\ RunGoesOn
    /\ Repeats("reset", None)
    /\ \E d \in (IF random = None THEN {<<>>} ELSE ResetDraws) :
           /\ Yields(d)
           /\ ResetTo(reset([d |-> d, p |-> 0]))
           /\ stream' = Read(d)
           /\ pos' = pos + Len(d)
           /\ cur' = Record(Called("reset", None, reset([d |-> d, p |-> 0]).ret))
           /\ ref' = ref

StepDet ==
    /\ IsRun(cur)
    /\ RunGoesOn
    /\ \E action \in 0..(num_actions - 1) :
           \E d \in StepDraws(action, <<>>) :
               /\ Repeats("step", action)
               /\ Yields(d)
               /\ StepTo(action, step(action, Padded(d)))
               /\ stream' = Read(d)
               /\ pos' = pos + Len(d)
               /\ cur' = Record(Called("step", action, step(action, Padded(d)).ret))
               /\ ref' = ref

NextDet == SeedDet \/ ResetDet \/ StepDet

SpecDet == Init /\ [][NextDet]_vars

\* ------------------------------------------------- episodes run to their end
\* The caller of the training loop: reset() begins an episode when none is under
\* way or the last step returned done, and the caller goes on calling step(), so
\* that a step is made again and again.
ResetLive == (PyLen(tasks) = 0 \/ ret.done) /\ Reset

NextLive == Seed \/ ResetLive \/ Step

\* the constructor's arguments of these runs: one task whose instances are all
\* quality-control instances, and two tasks whose instances are all to be labelled
LiveScenarios ==
    {<<Worker(One \div 2), <<GiverA>>, Settings(2, One, 0)>>,
     <<Worker(One \div 2), <<GiverA, GiverB>>, Settings(2, 0, One \div 2)>>}

InitLive ==
    /\ \E scenario \in LiveScenarios :
           /\ user_properties = scenario[1]
           /\ tasks_properties_distributions = scenario[2]
           /\ anti_cheat_settings = scenario[3]
    /\ tasks = EmptyList
    /\ task_task_dist_map = EmptyList
    /\ current_task_idx = -1
    /\ user_reputation = Float(-1)
    /\ overall_time_spent = 0
    /\ last_action = None
    /\ random = None
    /\ ret = By("none", NoValue("none"))
    /\ stream = [s \in Seeds |-> <<>>]
    /\ pos = 0
    /\ cur = <<>>
    /\ ref = <<>>

SpecLive == InitLive /\ [][NextLive]_vars /\ WF_vars(Step)

\* ------------------------------------------------- two episodes compared
\* Two episodes of one environment are followed, each reset() and then steps, and
\* each call is recorded with the draws it read, the state it left and the
\* observation it returned: cur holds the record of the episode under way, ref
\* that of the episode before.  The second episode is the first one over again but
\* for the draws of its reset(): its steps take the actions of the first in their
\* order and read the draws they read.  Two task-givers that are alike make tasks
\* that are alike, whatever the order the shuffle puts them in.
TwinScenarios ==
    {<<Worker(One \div 2), <<GiverA, GiverA>>, Settings(2, One \div 2, One \div 2)>>,
     <<Worker(One \div 2), <<GiverA, GiverB>>, Settings(2, One \div 2, One \div 2)>>}

InitTwin ==
    /\ \E scenario \in TwinScenarios :
           /\ user_properties = scenario[1]
           /\ tasks_properties_distributions = scenario[2]
           /\ anti_cheat_settings = scenario[3]
    /\ tasks = EmptyList
    /\ task_task_dist_map = EmptyList
    /\ current_task_idx = -1
    /\ user_reputation = Float(-1)
    /\ overall_time_spent = 0
    /\ last_action = None
    /\ random = None
    /\ ret = By("none", NoValue("none"))
    /\ stream = [s \in Seeds |-> <<>>]
    /\ pos = 0
    /\ cur = <<>>
    /\ ref = <<>>

\* the fields of the environment after a call, and what the call returned
Snapshot(call, action, d, r, mapping) ==
    [call |-> call, action |-> action, draws |-> d,
     tasks |-> r.tasks, task_task_dist_map |-> mapping,
     current_task_idx |-> r.current_task_idx, user_reputation |-> r.user_reputation,
     overall_time_spent |-> r.overall_time_spent,
     obs |-> r.ret.obs, outcome |-> r.ret.outcome]

\* reset() begins an episode; the second one is the last
ResetTwin ==
    /\ ref = <<>>
    /\ \E d \in (IF random = None THEN {<<>>} ELSE ResetDraws) :
           LET r == reset([d |-> d, p |-> 0]) IN
           /\ ResetTo(r)
           /\ cur' = <<Snapshot("reset", None, d, r, r.task_task_dist_map)>>
           /\ ref' = cur
           /\ UNCHANGED <<stream, pos>>

\* the step of the second episode is the step the first one made at that place
Mirrors(action, d) ==
    ref # <<>> =>
        /\ Len(cur) < Len(ref)
        /\ ref[Len(cur) + 1].action = action
        /\ ref[Len(cur) + 1].draws = d

\* step(action) in the episode under way, of which MaxTwinLen calls are recorded
StepTwin ==
    /\ cur # <<>>
    /\ Len(cur) < MaxTwinLen
    /\ \E action \in 0..(num_actions - 1) :
           \E d \in StepDraws(action, <<>>) :
               LET r == step(action, Padded(d)) IN
               /\ Mirrors(action, d)
               /\ StepTo(action, r)
               /\ cur' = Append(cur, Snapshot("step", action, d, r, task_task_dist_map))
               /\ UNCHANGED <<stream, pos, ref>>

NextTwin == Seed \/ ResetTwin \/ StepTwin

SpecTwin == InitTwin /\ [][NextTwin]_vars

\* ------------------------------------------------------------ the claims
\* a reset has built the tasks of an episode
Started == PyLen(tasks) > 0

\* this step of the behaviour is a call step(action)
StepMade(action) == ret'.call = "step" /\ last_action' = action /\ random' = random

\* the time budget does not end the episode at this step
InTime == overall_time_spent <= user_properties.time_budget

\* a task that does not accept answers, in the words of the specification: it has
\* its target volume, or too many failed quality-control answers, or the worker's
\* reputation is too low
Inactive(task, reputation) ==
    \/ Float(task.real_instance_counter) >= task.properties.target_num_instances
    \/ task.qa_false_counter >= anti_cheat_settings.qa_false_max
    \/ reputation < anti_cheat_settings.min_reputation

\* C1: in every state reached by reset() and any steps after it, the reputation
\* lies in [0, 1]
C1_ReputationInRange == Started => (0 <= user_reputation /\ user_reputation <= One)

\* a punishment that would take the reputation below 0 has left it at 0
C1_Witness ==
    /\ Started
    /\ user_reputation = 0
    /\ user_properties.start_reputation + anti_cheat_settings.reputation_punishment < 0
    /\ \E i \in DOMAIN tasks : tasks[i].qa_false_counter > 0

\* the first k calls of two records are the same calls
SameCalls(a, b, k) ==
    \A m \in 1..k : a[m].call = b[m].call /\ a[m].action = b[m].action

\* C2: two runs that begin seed(s); reset() with the same seed and go on with the
\* same actions return the same observation, reward and done at every call
C2_Determinism ==
    (IsRun(cur) /\ IsRun(ref)) =>
        \A k \in 1..Min(Len(cur), Len(ref)) :
            SameCalls(cur, ref, k) =>
                /\ cur[k].obs = ref[k].obs
                /\ cur[k].reward = ref[k].reward
                /\ cur[k].done = ref[k].done

\* an answer step of a record that the task accepted and paid for
PaidAnswer(log, k) ==
    /\ log[k].call = "step"
    /\ log[k].action \in {ACTION_ANS_RND, ACTION_ANS_INTENT}
    /\ log[k].reward > 0

\* a run of seed(s); reset() and MaxRunLen - 1 steps has repeated every call of the
\* run before it, from the state that run had left: the run switches to a task and
\* then gives an answer that is accepted and paid, the observation the first run
\* ended with is not the one reset() returns, and the second run has read the
\* draws again
C2_Witness ==
    /\ IsRun(cur) /\ IsRun(ref)
    /\ Len(cur) = MaxRunLen + 1
    /\ Len(ref) = MaxRunLen + 1
    /\ SameCalls(cur, ref, Len(cur))
    /\ \A k \in 3..Len(cur) : cur[k].call = "step"
    /\ cur[3].action >= SWITCH_TASK0
    /\ \E k \in 4..Len(cur) : PaidAnswer(cur, k) /\ PaidAnswer(ref, k)
    /\ ref[Len(ref)].obs # ref[2].obs
    /\ cur[2].obs = ref[2].obs
    /\ pos > 0 /\ pos = Len(stream[random])
    /\ overall_time_spent > 0

\* C3: a task that is inactive before a step is inactive after it, whatever the
\* action: within an episode no task comes back
C3_NeverReactivates ==
    [][\A action \in 0..(num_actions - 1) :
          StepMade(action) =>
              \A i \in DOMAIN tasks :
                  Inactive(tasks[i], user_reputation)
                      => Inactive(tasks'[i], user_reputation')]_vars

\* a task that has answered and gone inactive was switched to later, in vain
C3_Witness ==
    /\ ret.call = "step" /\ ret.outcome = "ok"
    /\ \E i \in DOMAIN tasks :
           /\ last_action = SWITCH_TASK0 + i
           /\ tasks[i].instance_counter > 0
           /\ Inactive(tasks[i], user_reputation)
           /\ ret.reward = Float(-1)

\* C4: a task active before a step is inactive after it exactly when one of its
\* counters equals its cap, or the reputation is below the minimum, after the step
C4_DeactivationAtCap ==
    [][\A action \in 0..(num_actions - 1) :
          StepMade(action) =>
              \A i \in DOMAIN tasks :
                  is_active(tasks[i], user_reputation) =>
                      (~is_active(tasks'[i], user_reputation')
                       <=> \/ Float(tasks'[i].real_instance_counter)
                                 = tasks'[i].properties.target_num_instances
                           \/ tasks'[i].qa_false_counter
                                 = anti_cheat_settings.qa_false_max
                           \/ user_reputation' < anti_cheat_settings.min_reputation)]_vars

\* C5, the three conditions: whatever the reputation r, is_active is true exactly
\* when the real instances are below the target, the failed quality-control
\* answers are below qa_false_max, and r is at least min_reputation
C5_ThreeConditions ==
    \A i \in DOMAIN tasks : \A r \in 0..One :
        is_active(tasks[i], r)
            <=> /\ Float(tasks[i].real_instance_counter)
                       < tasks[i].properties.target_num_instances
                /\ tasks[i].qa_false_counter < anti_cheat_settings.qa_false_max
                /\ r >= anti_cheat_settings.min_reputation

\* C5, the scenario: with qa_false_max = 2 and qa_mode_prob = 1 the step that
\* records the second failed quality-control answer leaves the task inactive
C5_SecondFailure ==
    \A action \in 0..(num_actions - 1) :
        (/\ StepMade(action)
         /\ anti_cheat_settings.qa_false_max = 2
         /\ anti_cheat_settings.qa_mode_prob = One) =>
            \A i \in DOMAIN tasks :
                (tasks[i].qa_false_counter = 1 /\ tasks'[i].qa_false_counter = 2)
                    => /\ is_active(tasks[i], user_reputation)
                       /\ ~is_active(tasks'[i], user_reputation')

\* C5: is_active is the conjunction of the three conditions, and the second failed
\* quality-control answer deactivates a task
C5_IsActive == []C5_ThreeConditions /\ [][C5_SecondFailure]_vars

\* a task is inactive for its two failed quality-control answers alone
C5_Witness ==
    /\ anti_cheat_settings.qa_false_max = 2
    /\ anti_cheat_settings.qa_mode_prob = One
    /\ \E i \in DOMAIN tasks :
           /\ tasks[i].qa_false_counter = 2
           /\ Float(tasks[i].real_instance_counter) < tasks[i].properties.target_num_instances
           /\ user_reputation >= anti_cheat_settings.min_reputation
           /\ ~is_active(tasks[i], user_reputation)

\* C6: a quit step, in any state, returns done, the reward
\* (time_budget - overall_time_spent) * time_sensitivity and end_reason user_quit
C6_Quit ==
    [][StepMade(ACTION_QUIT) =>
          /\ ret'.outcome = "ok"
          /\ ret'.done
          /\ ret'.reward = Mul(user_properties.time_budget - overall_time_spent,
                               user_properties.time_sensitivity)
          /\ ret'.info = {<<"end_reason", "user_quit">>}]_vars

\* the worker has quit with time spent and time left
C6_Witness ==
    /\ Started
    /\ ret.call = "step" /\ last_action = ACTION_QUIT
    /\ ret.done
    /\ overall_time_spent > 0
    /\ ret.reward > 0
    /\ ret.reward = Mul(user_properties.time_budget - overall_time_spent,
                        user_properties.time_sensitivity)

\* C7: a step that is not a quit ends the episode with reward 0 and end_reason
\* end_of_user_time_budget when the time spent before it exceeds the budget, and
\* does not end the episode otherwise, also when it takes the time over the budget
C7_TimeBudget ==
    [][\A action \in 1..(num_actions - 1) :
          StepMade(action) =>
              IF overall_time_spent > user_properties.time_budget
              THEN /\ ret'.outcome = "ok"
                   /\ ret'.done
                   /\ ret'.reward = 0
                   /\ ret'.info = {<<"end_reason", "end_of_user_time_budget">>}
              ELSE ~ret'.done]_vars

\* the episode has ended for lack of time
C7_Witness ==
    /\ ret.call = "step" /\ last_action # ACTION_QUIT
    /\ ret.done /\ ret.reward = 0
    /\ ret.info = {<<"end_reason", "end_of_user_time_budget">>}
    /\ overall_time_spent > user_properties.time_budget

\* C8: within the time budget, an answer with no task selected returns reward -1
\* and not done, costs random_answer_time, and changes no task and no reputation
C8_AnswerNoTask ==
    [][\A action \in {ACTION_ANS_RND, ACTION_ANS_INTENT} :
          (StepMade(action) /\ Started /\ InTime /\ current_task_idx = -1) =>
              /\ ret'.outcome = "ok"
              /\ ret'.reward = Float(-1)
              /\ ~ret'.done
              /\ overall_time_spent'
                     = overall_time_spent + user_properties.random_answer_time
              /\ tasks' = tasks
              /\ user_reputation' = user_reputation]_vars

\* an answer was given before any task was ever selected
C8_Witness ==
    /\ Started
    /\ ret.call = "step" /\ last_action \in {ACTION_ANS_RND, ACTION_ANS_INTENT}
    /\ current_task_idx = -1
    /\ ret.reward = Float(-1) /\ ~ret.done
    /\ overall_time_spent = user_properties.random_answer_time
    /\ \A i \in DOMAIN tasks : tasks[i].mode = None

\* C9: within the time budget, a switch to an inactive task returns reward -1 and
\* not done, costs switch_task_time and leaves no task selected
C9_SwitchInactive ==
    [][\A k \in DOMAIN tasks :
          (StepMade(SWITCH_TASK0 + k) /\ InTime /\ ~is_active(tasks[k], user_reputation)) =>
              /\ ret'.outcome = "ok"
              /\ ret'.reward = Float(-1)
              /\ ~ret'.done
              /\ overall_time_spent'
                     = overall_time_spent + user_properties.switch_task_time
              /\ current_task_idx' = -1]_vars

\* a switch to an inactive task was refused while another task, which was given an
\* instance, is still active
C9_Witness ==
    /\ ret.call = "step" /\ ret.reward = Float(-1) /\ ~ret.done
    /\ current_task_idx = -1
    /\ \E k \in DOMAIN tasks : \E j \in DOMAIN tasks :
           /\ j # k
           /\ last_action = SWITCH_TASK0 + k
           /\ ~is_active(tasks[k], user_reputation)
           /\ is_active(tasks[j], user_reputation)
           /\ tasks[j].mode # None

\* C10: within the time budget, a switch to an active task k returns reward -1 if k
\* was selected already and 0 otherwise, and not done; it selects k, gives it an
\* instance in quality-control or label mode, and costs switch_task_time
C10_SwitchActive ==
    [][\A k \in DOMAIN tasks :
          (StepMade(SWITCH_TASK0 + k) /\ InTime /\ is_active(tasks[k], user_reputation)) =>
              /\ ret'.outcome = "ok"
              /\ ret'.reward = (IF current_task_idx = k THEN Float(-1) ELSE 0)
              /\ ~ret'.done
              /\ current_task_idx' = k
              /\ tasks'[k].mode \in {QUALITY_CONTROL_MODE, LABEL_MODE}
              /\ tasks'[k].current_instance.true_label
                     \in 0..(tasks[k].properties.num_classes - 1)
              /\ overall_time_spent'
                     = overall_time_spent + user_properties.switch_task_time]_vars

\* the selected task was switched to again, for the penalty and a new instance
C10_Witness ==
    /\ ret.call = "step" /\ ret.reward = Float(-1) /\ ~ret.done
    /\ \E k \in DOMAIN tasks :
           /\ last_action = SWITCH_TASK0 + k
           /\ current_task_idx = k
           /\ tasks[k].mode \in {QUALITY_CONTROL_MODE, LABEL_MODE}
           /\ tasks[k].instance_counter > 0

\* C11: within the time budget, an answer to the selected, active task costs
\* random_answer_time and pays payout_sensitivity * payout when negligent, costs
\* intentional_answer_time * effort and pays payout_sensitivity * payout +
\* interestingness_sensitivity * interestingness when diligent, whatever the answer
\* or the mode of the instance
C11_AnswerCostAndReward ==
    [][\A action \in {ACTION_ANS_RND, ACTION_ANS_INTENT} :
          (/\ StepMade(action) /\ InTime
           /\ current_task_idx \in DOMAIN tasks
           /\ is_active(tasks[current_task_idx], user_reputation)) =>
              LET properties == tasks[current_task_idx].properties
                  reward_payout == Mul(user_properties.payout_sensitivity, properties.payout)
              IN  /\ ret'.outcome = "ok"
                  /\ ~ret'.done
                  /\ action = ACTION_ANS_RND =>
                         /\ overall_time_spent'
                                = overall_time_spent + user_properties.random_answer_time
                         /\ ret'.reward = reward_payout
                  /\ action = ACTION_ANS_INTENT =>
                         /\ overall_time_spent'
                                = overall_time_spent
                                  + Mul(user_properties.intentional_answer_time,
                                        properties.effort)
                         /\ ret'.reward
                                = reward_payout
                                  + Mul(user_properties.interestingness_sensitivity,
                                        properties.interestingness)]_vars

\* a diligent answer that failed a quality-control question was paid for payout
\* and interestingness
C11_Witness ==
    /\ ret.call = "step" /\ ret.outcome = "ok" /\ last_action = ACTION_ANS_INTENT
    /\ \E i \in DOMAIN tasks :
           /\ tasks[i].instance_counter = 1
           /\ tasks[i].qa_false_counter = 1
           /\ tasks[i].properties.interestingness # 0
           /\ ret.reward = Mul(user_properties.payout_sensitivity, tasks[i].properties.payout)
                           + Mul(user_properties.interestingness_sensitivity,
                                 tasks[i].properties.interestingness)
           /\ overall_time_spent
                  = user_properties.switch_task_time
                    + Mul(user_properties.intentional_answer_time, tasks[i].properties.effort)

\* C12: a step with an action outside 0..num_tasks+2 raises an error: it neither
\* returns a result nor returns nothing
C12_InvalidActionRejected ==
    [][\A action \in OutsideActions :
          StepMade(action) => ret'.outcome \notin {"ok", "none"}]_vars

\* C13: in every state reached by reset() and any steps after it, current_task_idx
\* is -1 or an index of a task, 0..num_tasks-1
C13_TaskIdxInRange ==
    Started => (current_task_idx = -1 \/ current_task_idx \in 0..(num_tasks - 1))

\* the properties are properties that the task-giver dist creates
CreatedFrom(properties, dist) ==
    IF dist.kind = "fixed"
    THEN /\ properties.payout = dist.payout
         /\ properties.expertise = dist.expertise
         /\ properties.effort = dist.effort
         /\ properties.interestingness = dist.interestingness - One \div 2
         /\ properties.target_num_instances = dist.target_num_instances
    ELSE /\ \A x \in {properties.payout, properties.expertise, properties.effort} :
                0 <= x /\ x <= One
         /\ -(One \div 2) <= properties.interestingness
         /\ properties.interestingness <= One \div 2
         /\ 0 <= properties.target_num_instances
         /\ properties.target_num_instances <= dist.target_num_instances_scale

\* C14: after a reset, task_task_dist_map is a bijection on 0..num_tasks-1 and the
\* task in slot i has the properties of the task-giver task_task_dist_map[i]
C14_Mapping ==
    Started =>
        /\ DOMAIN task_task_dist_map = 0..(num_tasks - 1)
        /\ \A i \in DOMAIN task_task_dist_map : task_task_dist_map[i] \in 0..(num_tasks - 1)
        /\ \A i, k \in DOMAIN task_task_dist_map :
               task_task_dist_map[i] = task_task_dist_map[k] => i = k
        /\ \A i \in DOMAIN tasks :
               CreatedFrom(tasks[i].properties,
                           tasks_properties_distributions[task_task_dist_map[i] + 1])

\* a reset has put the tasks of two different task-givers in the other order
C14_Witness ==
    /\ Started /\ ret.call = "reset"
    /\ num_tasks = 2
    /\ task_task_dist_map[0] = 1 /\ task_task_dist_map[1] = 0
    /\ tasks_properties_distributions[1].payout # tasks_properties_distributions[2].payout
    /\ tasks[0].properties.payout = tasks_properties_distributions[2].payout
    /\ tasks[1].properties.payout = tasks_properties_distributions[1].payout

\* C15: an observation returned after a reset has 5 * num_tasks + 4 entries: for
\* each slot the payout, the instance counter if the task is active under the
\* reputation and -1 otherwise, expertise, effort and interestingness if an
\* instance was answered and -1, -1, -1 otherwise; then current_task_idx, the
\* reputation, the time budget and the time spent
C15_Observation ==
    (Started /\ ret.outcome = "ok") =>
        LET obs == ret.obs
            n == num_tasks
        IN  /\ Len(obs) = 5 * n + 4
            /\ \A i \in 0..(n - 1) :
                   /\ obs[5 * i + 1] = tasks[i].properties.payout
                   /\ obs[5 * i + 2] = (IF is_active(tasks[i], user_reputation)
                                        THEN Float(tasks[i].instance_counter)
                                        ELSE Float(-1))
                   /\ <<obs[5 * i + 3], obs[5 * i + 4], obs[5 * i + 5]>>
                          = (IF tasks[i].instance_counter > 0
                             THEN <<tasks[i].properties.expertise,
                                    tasks[i].properties.effort,
                                    tasks[i].properties.interestingness>>
                             ELSE <<Float(-1), Float(-1), Float(-1)>>)
            /\ obs[5 * n + 1] = Float(current_task_idx)
            /\ obs[5 * n + 2] = user_reputation
            /\ obs[5 * n + 3] = user_properties.time_budget
            /\ obs[5 * n + 4] = overall_time_spent

\* an observation of two tasks: one answered and inactive, one active and never
\* answered
C15_Witness ==
    /\ Started /\ ret.outcome = "ok" /\ ret.call = "step"
    /\ Len(ret.obs) = 14
    /\ \E i, k \in DOMAIN tasks :
           /\ tasks[i].instance_counter > 0
           /\ ~is_active(tasks[i], user_reputation)
           /\ ret.obs[5 * i + 2] = Float(-1)
           /\ ret.obs[5 * i + 3] = tasks[i].properties.expertise
           /\ tasks[k].instance_counter = 0
           /\ is_active(tasks[k], user_reputation)
           /\ ret.obs[5 * k + 2] = 0
           /\ ret.obs[5 * k + 3] = Float(-1)

\* this step of the behaviour is a call reset() that returned
ResetMade ==
    /\ ret'.call = "reset" /\ ret'.outcome = "ok"
    /\ last_action' = None /\ random' = random

\* C16: whatever the state before it, a reset() that returns leaves num_tasks new
\* tasks with their counters at 0, no mode and no instance, no task selected, no
\* time spent and the reputation at start_reputation
C16_ResetFresh ==
    [][ResetMade =>
          /\ DOMAIN tasks' = 0..(num_tasks - 1)
          /\ \A i \in DOMAIN tasks' :
                 /\ tasks'[i].instance_counter = 0
                 /\ tasks'[i].real_instance_counter = 0
                 /\ tasks'[i].qa_false_counter = 0
                 /\ tasks'[i].mode = None
                 /\ tasks'[i].current_instance = NoInstance
          /\ current_task_idx' = -1
          /\ overall_time_spent' = 0
          /\ user_reputation' = user_properties.start_reputation]_vars

\* a reset has returned the observation of a fresh episode
C16_Witness ==
    /\ ret.call = "reset" /\ ret.outcome = "ok"
    /\ Started
    /\ \A i \in DOMAIN tasks : tasks[i].instance_counter = 0 /\ tasks[i].mode = None
    /\ current_task_idx = -1
    /\ overall_time_spent = 0
    /\ user_reputation = user_properties.start_reputation
    /\ ret.obs[5 * num_tasks + 4] = 0

\* C17: receive_answer of a task that was given no instance, so has no mode,
\* raises an AssertionError and changes no counter of the task
C17_ReceiveNeedsMode ==
    [][(/\ ret'.call = "receive_answer" /\ random' = random
        /\ tasks[ret'.slot].mode = None) =>
           /\ ret'.outcome = "AssertionError"
           /\ tasks' = tasks]_vars

\* a new task was sent an answer, which failed and left it as it was
C17_Witness ==
    /\ ret.call = "receive_answer"
    /\ ret.outcome = "AssertionError"
    /\ tasks[ret.slot].mode = None
    /\ tasks[ret.slot].instance_counter = 0
    /\ tasks[ret.slot].real_instance_counter = 0
    /\ tasks[ret.slot].qa_false_counter = 0

\* C18, the grading: receive_answer of a task with an instance, whatever the
\* answer, adds 1 to instance_counter; in quality-control mode a wrong answer adds
\* 1 to qa_false_counter and returns reputation_punishment, a right one returns
\* reputation_bonus and changes nothing else; in label mode it adds 1 to
\* real_instance_counter and returns 0
C18_Grading ==
    \A i \in DOMAIN tasks :
        tasks[i].mode # None =>
            \A answer \in 0..(tasks[i].properties.num_classes - 1) :
                LET task == tasks[i]
                    got == receive_answer(task, answer)
                    wrong == answer # task.current_instance.true_label
                IN  /\ got.raised = ""
                    /\ got.task.instance_counter = task.instance_counter + 1
                    /\ got.task.properties = task.properties
                    /\ got.task.mode = task.mode
                    /\ got.task.current_instance = task.current_instance
                    /\ task.mode = QUALITY_CONTROL_MODE =>
                           /\ got.task.real_instance_counter = task.real_instance_counter
                           /\ got.task.qa_false_counter
                                  = task.qa_false_counter + (IF wrong THEN 1 ELSE 0)
                           /\ got.reputation_change
                                  = (IF wrong THEN anti_cheat_settings.reputation_punishment
                                     ELSE anti_cheat_settings.reputation_bonus)
                    /\ task.mode = LABEL_MODE =>
                           /\ got.task.real_instance_counter = task.real_instance_counter + 1
                           /\ got.task.qa_false_counter = task.qa_false_counter
                           /\ got.reputation_change = 0

\* C18, the steps: an accepted answer counts as its instance's mode says, and the
\* reputation changes across a step only if the step is an accepted answer to a
\* quality-control instance
C18_Step ==
    \A action \in 0..(num_actions - 1) :
        StepMade(action) =>
            LET accepted == /\ action \in {ACTION_ANS_RND, ACTION_ANS_INTENT}
                            /\ InTime
                            /\ current_task_idx \in DOMAIN tasks
                            /\ is_active(tasks[current_task_idx], user_reputation)
                before == tasks[current_task_idx]
                after == tasks'[current_task_idx]
                punished == Max(0, Min(One, user_reputation
                                            + anti_cheat_settings.reputation_punishment))
                rewarded == Max(0, Min(One, user_reputation
                                            + anti_cheat_settings.reputation_bonus))
            IN  /\ user_reputation' # user_reputation =>
                       accepted /\ before.mode = QUALITY_CONTROL_MODE
                /\ accepted =>
                       /\ after.instance_counter = before.instance_counter + 1
                       /\ before.mode = QUALITY_CONTROL_MODE =>
                              /\ after.real_instance_counter = before.real_instance_counter
                              /\ \/ /\ after.qa_false_counter = before.qa_false_counter + 1
                                    /\ user_reputation' = punished
                                 \/ /\ after.qa_false_counter = before.qa_false_counter
                                    /\ user_reputation' = rewarded
                       /\ before.mode = LABEL_MODE =>
                              /\ after.real_instance_counter
                                     = before.real_instance_counter + 1
                              /\ after.qa_false_counter = before.qa_false_counter
                              /\ user_reputation' = user_reputation

\* C18: receive_answer grades by the mode of the instance, so that the reputation
\* changes only by accepted answers to quality-control instances
C18_ReceiveAnswer == []C18_Grading /\ [][C18_Step]_vars

\* a task has a failed quality-control answer and a labelled instance, and the
\* reputation is the start reputation after the punishment
C18_Witness ==
    /\ ret.call = "step" /\ ret.outcome = "ok"
    /\ last_action \in {ACTION_ANS_RND, ACTION_ANS_INTENT}
    /\ \E i \in DOMAIN tasks :
           /\ tasks[i].instance_counter = 2
           /\ tasks[i].qa_false_counter = 1
           /\ tasks[i].real_instance_counter = 1
    /\ \A i \in DOMAIN tasks : tasks[i].instance_counter # 1
    /\ user_reputation
           = Max(0, Min(One, user_properties.start_reputation
                             + anti_cheat_settings.reputation_punishment))
    /\ user_reputation # user_properties.start_reputation

\* C19: after an accepted answer, if the answered task is inactive under the new
\* reputation no task is selected and the task keeps the instance it had;
\* otherwise the task stays selected and has an instance in one of the two modes
C19_SelectionAfterAnswer ==
    [][\A action \in {ACTION_ANS_RND, ACTION_ANS_INTENT} :
          (/\ StepMade(action) /\ InTime
           /\ current_task_idx \in DOMAIN tasks
           /\ is_active(tasks[current_task_idx], user_reputation)) =>
              LET k == current_task_idx IN
              IF ~is_active(tasks'[k], user_reputation')
              THEN /\ current_task_idx' = -1
                   /\ tasks'[k].mode = tasks[k].mode
                   /\ tasks'[k].current_instance = tasks[k].current_instance
              ELSE /\ current_task_idx' = k
                   /\ tasks'[k].mode \in {QUALITY_CONTROL_MODE, LABEL_MODE}
                   /\ tasks'[k].current_instance.true_label
                          \in 0..(tasks[k].properties.num_classes - 1)]_vars

\* an answer has made its task inactive and left no task selected, though the
\* other task is active
C19_Witness ==
    /\ ret.call = "step" /\ ret.outcome = "ok"
    /\ last_action \in {ACTION_ANS_RND, ACTION_ANS_INTENT}
    /\ ret.reward > 0
    /\ current_task_idx = -1
    /\ \E i, k \in DOMAIN tasks :
           /\ ~is_active(tasks[i], user_reputation)
           /\ tasks[i].instance_counter > 0
           /\ is_active(tasks[k], user_reputation)

\* the step of the behaviour is a step that returns an observation and takes the
\* task in slot i from active to inactive
Deactivates(i) ==
    /\ \E action \in 0..(num_actions - 1) : StepMade(action)
    /\ ret'.outcome = "ok"
    /\ is_active(tasks[i], user_reputation)
    /\ ~is_active(tasks'[i], user_reputation')

\* C20 as claimed: the observation returned by the step that deactivates a task
\* still reports the task's instance_counter in its rounds field, not -1
C20_StaleFrame ==
    [][\A i \in DOMAIN tasks :
          Deactivates(i) =>
              ret'.obs[5 * i + 2] = Float(tasks'[i].instance_counter)]_vars

\* C20 as amended: the observation returned by the step that deactivates a task
\* reports -1 in the task's rounds field already
C20_NoStaleFrame ==
    [][\A i \in DOMAIN tasks :
          Deactivates(i) => ret'.obs[5 * i + 2] = Float(-1)]_vars

\* an accepted answer has deactivated its task, and the observation it returned
\* shows -1 rounds next to the task's properties
C20_Witness ==
    /\ ret.call = "step" /\ ret.outcome = "ok"
    /\ last_action \in {ACTION_ANS_RND, ACTION_ANS_INTENT}
    /\ ret.reward > 0
    /\ current_task_idx = -1
    /\ \E i \in DOMAIN tasks :
           /\ ~is_active(tasks[i], user_reputation)
           /\ tasks[i].instance_counter > 0
           /\ ret.obs[5 * i + 2] = Float(-1)
           /\ ret.obs[5 * i + 3] = tasks[i].properties.expertise

\* C21: in every reachable state, every task has labelled at most as many
\* instances as it has been given answers: real_instance_counter <= instance_counter
C21_RealAtMostAll ==
    \A i \in DOMAIN tasks : tasks[i].real_instance_counter <= tasks[i].instance_counter

\* a task has been given a quality-control answer and a label: its counters differ
\* and neither is 0
C21_Witness ==
    \E i \in DOMAIN tasks :
        /\ 0 < tasks[i].real_instance_counter
        /\ tasks[i].real_instance_counter < tasks[i].instance_counter

\* two recorded calls left the same per-slot task state and worker state
SameState(a, b) ==
    /\ a.tasks = b.tasks
    /\ a.current_task_idx = b.current_task_idx
    /\ a.user_reputation = b.user_reputation
    /\ a.overall_time_spent = b.overall_time_spent

\* the mapping m tells for every slot of ts a task-giver that makes such a task,
\* each task-giver once
Recovers(m, ts) ==
    /\ DOMAIN m = 0..(num_tasks - 1)
    /\ \A i, k \in DOMAIN m : m[i] = m[k] => i = k
    /\ \A i \in DOMAIN ts :
           /\ m[i] \in 0..(num_tasks - 1)
           /\ CreatedFrom(ts[i].properties, tasks_properties_distributions[m[i] + 1])

\* C22: two calls of two episodes that left the same per-slot task state and
\* worker state returned the same observation, whether or not the episodes map the
\* slots to the task-givers alike; and all through an episode the environment's
\* task_task_dist_map is the mapping its reset() made, which tells the task-giver
\* of every slot
C22_MappingHidden ==
    /\ \A j \in DOMAIN ref : \A k \in DOMAIN cur :
           (ref[j].outcome = "ok" /\ cur[k].outcome = "ok" /\ SameState(ref[j], cur[k]))
               => ref[j].obs = cur[k].obs
    /\ \A k \in DOMAIN cur :
           cur[1].outcome = "ok" =>
               /\ cur[k].task_task_dist_map = cur[1].task_task_dist_map
               /\ task_task_dist_map = cur[1].task_task_dist_map
               /\ Recovers(task_task_dist_map, cur[k].tasks)

\* a step of each of two episodes that map the slots to the task-givers in
\* different orders has selected a task and left the same state, and the two
\* observations are the same
C22_Witness ==
    /\ Len(ref) >= 2 /\ Len(cur) >= 2
    /\ LET a == ref[Len(ref)]
           b == cur[Len(cur)]
       IN  /\ a.call = "step" /\ b.call = "step"
           /\ a.outcome = "ok" /\ b.outcome = "ok"
           /\ a.task_task_dist_map # b.task_task_dist_map
           /\ SameState(a, b)
           /\ a.current_task_idx # -1
           /\ a.obs = b.obs
           /\ Len(a.obs) = 5 * num_tasks + 4

\* a selected task is a task of the episode that is active under the present
\* reputation and has been given an instance; and no call has failed the
\* assertion of receive_answer
C23_SelectedIsActive ==
    /\ current_task_idx # -1 =>
           /\ current_task_idx \in DOMAIN tasks
           /\ is_active(tasks[current_task_idx], user_reputation)
           /\ tasks[current_task_idx].mode \in {QUALITY_CONTROL_MODE, LABEL_MODE}
           /\ tasks[current_task_idx].current_instance # NoInstance
    /\ ret.outcome # "AssertionError"

\* a step in which a task records an answer is an answer to the selected task,
\* which was active under the reputation and had its mode set before the step
C23_AnswerRecorded ==
    \A action \in 0..(num_actions - 1) :
        StepMade(action) =>
            \A i \in DOMAIN tasks :
                tasks'[i] # tasks[i] /\ tasks'[i].instance_counter # tasks[i].instance_counter =>
                    /\ action \in {ACTION_ANS_RND, ACTION_ANS_INTENT}
                    /\ i = current_task_idx
                    /\ is_active(tasks[i], user_reputation)
                    /\ tasks[i].mode # None
                    /\ tasks'[i].instance_counter = tasks[i].instance_counter + 1

\* C23: after reset() and after every step() with an action of the action space,
\* a selected task is active under the present reputation and has its mode set;
\* step() never fails the assertion of receive_answer, and a task records an
\* answer only when it is the selected, active task
C23_SelectionSound == []C23_SelectedIsActive /\ [][C23_AnswerRecorded]_vars

\* an answer has been recorded by the selected task, which is still selected and
\* active and has its next instance
C23_Witness ==
    /\ ret.call = "step" /\ ret.outcome = "ok"
    /\ last_action \in {ACTION_ANS_RND, ACTION_ANS_INTENT}
    /\ current_task_idx \in DOMAIN tasks
    /\ tasks[current_task_idx].instance_counter > 0
    /\ is_active(tasks[current_task_idx], user_reputation)
    /\ tasks[current_task_idx].mode # None

\* the worker is banned: an episode is under way and the reputation is below
\* min_reputation
Banned == Started /\ user_reputation < anti_cheat_settings.min_reputation

\* C24: once the reputation is below min_reputation, no task is selected, and
\* every step leaves the reputation as it is and no task selected; an answer or a
\* switch that gets past the quit and the time check returns the reward -1
C24_BanIsPermanent ==
    /\ [](Banned => current_task_idx = -1)
    /\ [][\A action \in 0..(num_actions - 1) :
             (Banned /\ StepMade(action)) =>
                 /\ ret'.outcome = "ok"
                 /\ user_reputation' = user_reputation
                 /\ current_task_idx' = -1
                 /\ \A i \in DOMAIN tasks :
                        tasks'[i].instance_counter = tasks[i].instance_counter
                 /\ (action # ACTION_QUIT /\ InTime) =>
                        /\ ret'.reward = Float(-1)
                        /\ ret'.done = FALSE]_vars

\* a banned worker has tried to switch to a task never answered and still short
\* of its target, and was refused with the reward -1
C24_Witness ==
    /\ Banned
    /\ ret.call = "step" /\ ret.outcome = "ok"
    /\ last_action >= SWITCH_TASK0
    /\ ret.reward = Float(-1)
    /\ current_task_idx = -1
    /\ LET i == last_action - SWITCH_TASK0
       IN  /\ i \in DOMAIN tasks
           /\ tasks[i].instance_counter = 0
           /\ tasks[i].qa_false_counter < anti_cheat_settings.qa_false_max
           /\ \E k \in DOMAIN tasks : tasks[k].qa_false_counter > 0

\* C25: once the time spent exceeds the budget, every step that is not a quit,
\* whatever its action, returns done with the reward 0 and leaves the time spent,
\* the reputation, the selection and every field of every task as they were, so
\* that the time stays spent
C25_ExpiredIsAbsorbing ==
    [][\A action \in (-1..num_actions) \ {ACTION_QUIT} :
          (StepMade(action) /\ ~InTime) =>
              /\ ret'.outcome = "ok"
              /\ ret'.done
              /\ ret'.reward = 0
              /\ overall_time_spent' = overall_time_spent
              /\ user_reputation' = user_reputation
              /\ current_task_idx' = current_task_idx
              /\ tasks' = tasks
              /\ ~InTime']_vars

\* an answer to the selected task, which is active and has answers recorded, was
\* not taken because the time is spent: the task is still selected
C25_Witness ==
    /\ ret.call = "step" /\ ret.outcome = "ok"
    /\ last_action \in {ACTION_ANS_RND, ACTION_ANS_INTENT}
    /\ ret.done /\ ret.reward = 0
    /\ ~InTime
    /\ current_task_idx \in DOMAIN tasks
    /\ is_active(tasks[current_task_idx], user_reputation)
    /\ tasks[current_task_idx].instance_counter > 0

\* every cost of time is strictly positive: the negligent answer's, the
\* switch's, and the diligent answer's for every task of the episode
CostsPositive ==
    /\ user_properties.random_answer_time > 0
    /\ user_properties.switch_task_time > 0
    /\ \A i \in DOMAIN tasks :
           Mul(user_properties.intentional_answer_time, tasks[i].properties.effort) > 0

\* a step that returns and does not end the episode takes time
C26_StepTakesTime ==
    \A action \in 0..(num_actions - 1) :
        (StepMade(action) /\ CostsPositive /\ ret'.outcome = "ok" /\ ~ret'.done) =>
            overall_time_spent' > overall_time_spent

\* a step ends the episode only as a quit or for lack of time
C26_EndsByQuitOrTime ==
    (ret.call = "step" /\ ret.done) =>
        \/ /\ last_action = ACTION_QUIT
           /\ ret.info = {<<"end_reason", "user_quit">>}
        \/ /\ last_action # ACTION_QUIT
           /\ overall_time_spent > user_properties.time_budget
           /\ ret.info = {<<"end_reason", "end_of_user_time_budget">>}

\* C26: with strictly positive costs, every step that does not end the episode
\* takes time, a step ends the episode only as a quit or for lack of time, and
\* whatever actions of the action space are taken after a reset(), one step after
\* the other, some step returns done
C26_Terminates ==
    /\ [][C26_StepTakesTime]_vars
    /\ []C26_EndsByQuitOrTime
    /\ ((ret.call = "reset" /\ ret.outcome = "ok" /\ CostsPositive)
            ~> (ret.call = "step" /\ ret.done))

\* a switch was not taken because the time is spent, after answers and with no
\* quit: the steps before it have used up the budget
C26_Witness ==
    /\ ret.call = "step" /\ ret.done
    /\ last_action >= SWITCH_TASK0
    /\ CostsPositive
    /\ overall_time_spent > user_properties.time_budget
    /\ ret.info = {<<"end_reason", "end_of_user_time_budget">>}
    /\ \E i \in DOMAIN tasks : tasks[i].instance_counter > 0

====
